---- MODULE Spec2Model ----
(***************************************************************************)
(* Model of saurus' Session (src/unnamed/part_000): the per-connection     *)
(* pipeline of the proxy.  A Session receives UDP payloads from the client *)
(* and from the server (handle), forwards them verbatim while Offline, and *)
(* once Online acknowledges every datagram, runs its encapsulated packets  *)
(* through the reliable window and the split reassembly, intercepts Login  *)
(* and ServerHandshake inside batches, and re-fragments what it forwards.  *)
(*                                                                         *)
(* Every handler is an operator on a record S of the session's fields; an  *)
(* action runs one whole call of handle() or disconnect().  S.sent is what *)
(* the call handed to the listeners, S.error what it threw ("" = nothing), *)
(* S.hung whether it entered a loop that never ends.                       *)
(***************************************************************************)
EXTENDS Integers, Sequences, FiniteSets, TLC

VARIABLES
    state,            \* _state
    mtuSize,          \* _mtuSize
    splits,           \* _clientSplits / _serverSplits, by origin
    splitID,          \* _clientSplitID / _serverSplitID, by destination
    packetIndex,      \* _clientPacketIndex / _serverPacketIndex, by destination
    reliableWindow,   \* _clientReliableWindow / _serverReliableWindow, by origin
    packetIndexes,    \* _clientPacketIndexes / _serverPacketIndexes, by origin
    seqNumber,        \* _clientSeqNumber / _serverSeqNumber, by destination
    keyPair,          \* _keyPair: 0 = undefined, n = the n-th generated pair
    salt,             \* _salt: 0 = "", n = the salt drawn with the n-th pair
    clientBatch,      \* _clientBatch: <<>> = undefined, else the codec's secret
    serverBatch,      \* _serverBatch: <<>> = undefined, else the codec's secret
    closed,           \* listener.close() has been called
    hung,             \* a handler is in a loop that never ends
    op,               \* the last operation: "new", "handle", "disconnect"
    input,            \* the arguments of the last handle(): [from, data]
    sent,             \* what the last operation passed to listener.send, in order
    error,            \* what the last operation threw, "" when it returned
    received,         \* history: the reliable indices admitted so far, by origin
    calls,            \* the calls of sendPacket suspended at an await, by task
    stamped,          \* history: the datagrams stamped, in that order, by destination
    wire,             \* history: the datagrams given to listener.send, by destination
    dataIn,           \* what the subscriber of "data-in" does: "none" registered,
                      \* returns "cancelled", or returns a tuple that is "empty"
    dataOut           \* the same for the subscriber of "data-out"

vars == <<state, mtuSize, splits, splitID, packetIndex, reliableWindow,
          packetIndexes, seqNumber, keyPair, salt, clientBatch, serverBatch,
          closed, hung, op, input, sent, error, received, calls, stamped, wire,
          dataIn, dataOut>>

----------------------------------------------------------------------------
(* Program constants *)

Offline == 0
Online == 1
Encrypted == 2

InitialMtu == 1492
WindowEnd == 2048
SplitSlots == 4
Overhead == 60
SplitIdModulus == 65536

\* Packet ids (protocol/mod.ts): the first byte of a payload.
BatchPacketId == 254
LoginPacketId == 1
ServerHandshakePacketId == 3

Origin == {"client", "server"}

opposite(origin) == IF origin = "client" THEN "server" ELSE "client"

\* Mutant of inRange: the lower edge of the window is not tested.
inRange_noStart(n, start, end) == n <= end

\* Mutant of inRange: the upper edge of the window is not tested.
inRange_noEnd(n, start, end) == n >= start

inRange(n, start, end) == n >= start /\ n <= end

isReliable(reliability) == reliability \in {2, 3, 4, 6, 7}

Min(S) == CHOOSE x \in S : \A y \in S : x <= y

----------------------------------------------------------------------------
(* Data: encapsulated packets, UDP payloads, listener sends *)

NoSplit == [id |-> 0, index |-> 0, count |-> 0]

\* index = -1: the packet has no index field.
EncapsulatedPacket(reliability, index, split, sub) ==
    [reliability |-> reliability, index |-> index, split |-> split, sub |-> sub]

hasSplit(packet) == packet.split.count > 0

\* A UDP payload, decoded: kind is what ProtocolPacket.header / datagramOf see.
Data(kind, mtu, seq, acks, packets) ==
    [kind |-> kind, mtuSize |-> mtu, seqNumber |-> seq, acks |-> acks,
     packets |-> packets]

Open2Request(mtu) == Data("Open2Request", mtu, 0, <<>>, <<>>)
Open2Reply == Data("Open2Reply", 0, 0, <<>>, <<>>)
OtherOffline == Data("Other", 0, 0, <<>>, <<>>)
Datagram(seq, packets) == Data("Datagram", 0, seq, <<>>, packets)
ACK(seqs) == Data("ACK", 0, 0, seqs, <<>>)
NACK(seqs) == Data("NACK", 0, 0, seqs, <<>>)
NoData == Data("none", 0, 0, <<>>, <<>>)

EmptySlot == [used |-> FALSE, id |-> 0, packets |-> <<>>]

\* The session's fields as one record, with the log of the running operation.
Session ==
    [state |-> state, mtuSize |-> mtuSize, splits |-> splits,
     splitID |-> splitID, packetIndex |-> packetIndex,
     reliableWindow |-> reliableWindow, packetIndexes |-> packetIndexes,
     seqNumber |-> seqNumber, keyPair |-> keyPair, salt |-> salt,
     clientBatch |-> clientBatch, serverBatch |-> serverBatch,
     closed |-> closed, hung |-> hung, sent |-> <<>>, error |-> "",
     received |-> received, dataIn |-> dataIn, dataOut |-> dataOut]

throw(S, message) == [S EXCEPT !.error = message]

running(S) == S.error = "" /\ ~S.hung

----------------------------------------------------------------------------
(* Events (EventEmitter, mod.ts): emit awaits the subscribers and returns   *)
(* "cancelled" or the tuple of arguments, which a subscriber may replace.  *)
(* After construction no subscriber is registered: the arguments come back *)
(* as they were.                                                           *)

Subscribers == {"none", "cancelled", "empty"}

\* result === "cancelled"
cancelled(subscriber) == subscriber = "cancelled"

\* [data, to] = result; !data || !to
empty(subscriber) == subscriber = "empty"

\* send(data, to): the data goes to the listener facing `to`.
send(S, data, to) ==
    IF cancelled(S.dataOut) THEN S
    ELSE IF empty(S.dataOut) THEN throw(S, "Event error")
    ELSE [S EXCEPT !.sent = Append(@, [to |-> to, data |-> data])]

\* Mutant of sendAck: the acknowledgement goes to the other side.
sendAck_opposite(S, ack, to) == send(S, ack, opposite(to))

sendAck(S, ack, to) == send(S, ack, to)

sendDatagram(S, datagram, to) == send(S, datagram, to)

----------------------------------------------------------------------------
(* sendPacket: re-fragment a payload to the MTU and stamp each fragment    *)

\* JS numbers: length / 0 is Infinity (NaN for 0 / 0), so the first loop of
\* sendPacket never ends for a non-empty payload and does not run for an empty
\* one; a negative maxSize gives a negative quotient (no iteration) or -0.
endless(length, maxSize) == maxSize = 0 /\ length > 0

\* Math.floor(length / maxSize), where it is a finite number: -1 stands for
\* every value below 0 and for NaN (the loop test i <= quotient is false).
quotientOf(length, maxSize) ==
    IF maxSize > 0 THEN length \div maxSize
    ELSE IF maxSize < 0 /\ length = 0 THEN 0
    ELSE -1

\* length % maxSize (the sign of the dividend); 0 stands for NaN, never read.
remainderOf(length, maxSize) ==
    IF maxSize > 0 THEN length % maxSize
    ELSE IF maxSize < 0 THEN length % (0 - maxSize)
    ELSE 0

fragmentSize(i, quotient, maxSize, remainder) ==
    IF i = quotient THEN remainder ELSE maxSize

\* buffer.readArray(size) at the read cursor; the cursor moves by size.
readArray(array, cursor, size) == SubSeq(array, cursor + 1, cursor + size)

RECURSIVE readBuffers(_, _, _, _, _, _)
readBuffers(array, cursor, i, quotient, maxSize, remainder) ==
    IF i > quotient THEN <<>>
    ELSE LET size == fragmentSize(i, quotient, maxSize, remainder)
         IN  <<readArray(array, cursor, size)>>
               \o readBuffers(array, cursor + size, i + 1, quotient, maxSize,
                              remainder)

splitOf(count, sid, i) ==
    [id |-> sid % SplitIdModulus, index |-> i, count |-> count]

\* Mutant of sendFragment: the sequence number is read and not incremented.
sendFragment_sameSeq(S, sub, i, count, sid, reliability, to) ==
    LET split == IF count > 1 THEN splitOf(count, sid, i) ELSE NoSplit
        index == S.packetIndex[to]
        packet == EncapsulatedPacket(reliability, index, split, sub)
        seq == S.seqNumber[to]
        S1 == [S EXCEPT !.packetIndex[to] = @ + 1]
    IN  sendDatagram(S1, Datagram(seq, <<packet>>), to)

\* One iteration of the second loop: stamp fragment i and send its datagram.
sendFragment(S, sub, i, count, sid, reliability, to) ==
    LET split == IF count > 1 THEN splitOf(count, sid, i) ELSE NoSplit
        index == S.packetIndex[to]
        packet == EncapsulatedPacket(reliability, index, split, sub)
        seq == S.seqNumber[to]
        S1 == [S EXCEPT !.packetIndex[to] = @ + 1, !.seqNumber[to] = @ + 1]
    IN  sendDatagram(S1, Datagram(seq, <<packet>>), to)

RECURSIVE sendFragments(_, _, _, _, _, _)
sendFragments(S, buffers, i, sid, reliability, to) ==
    IF i >= Len(buffers) \/ ~running(S) THEN S
    ELSE sendFragments(
             sendFragment(S, buffers[i + 1], i, Len(buffers), sid,
                          reliability, to),
             buffers, i + 1, sid, reliability, to)

sendPacket(S, packet, to) ==
    LET length == Len(packet.sub)
        maxSize == S.mtuSize - Overhead
        quotient == quotientOf(length, maxSize)
        remainder == remainderOf(length, maxSize)
        buffers == readBuffers(packet.sub, 0, 0, quotient, maxSize, remainder)
        sid == S.splitID[to]
        S1 == IF Len(buffers) > 1 THEN [S EXCEPT !.splitID[to] = @ + 1] ELSE S
    IN  IF endless(length, maxSize) THEN [S EXCEPT !.hung = TRUE]
        ELSE sendFragments(S1, buffers, 0, sid, packet.reliability, to)

----------------------------------------------------------------------------
(* Batches and the Bedrock packets inside them.                            *)
(* A Bedrock packet is <<id, field, ...>>: Login <<1, identityPublicKey>>, *)
(* ServerHandshake <<3, x5u, salt>>.  A batch payload is                   *)
(* <<BatchPacketId, wrap>> \o records, each record a length then a packet; *)
(* wrap is 0 for a compressed batch and the codec's tag for an encrypted   *)
(* one.  A public key of 0 is one no key agreement accepts.                *)

\* genKeyPair(): the n-th pair has private key n and this public key.
publicKeyOf(pair) == 10 + pair

\* diffieHellman({privateKey, publicKey, salt}): the secret, <<>> when it throws.
diffieHellman(privateKey, publicKey, saltValue) ==
    IF publicKey = 0 THEN <<>> ELSE <<privateKey, publicKey, saltValue>>

\* EncryptedBatchPacket(secret, origin): the codec, by the tag its batches carry.
EncryptedBatchPacket(secret, origin) == secret

wrapOf(codec) == 100 + 9 * codec[1] + 3 * (codec[2] % 3) + (codec[3] % 3)

RECURSIVE readRecords(_)
readRecords(body) ==
    IF Len(body) = 0 THEN <<>>
    ELSE <<SubSeq(body, 2, 1 + body[1])>>
           \o readRecords(SubSeq(body, 2 + body[1], Len(body)))

RECURSIVE writeRecords(_)
writeRecords(packets) ==
    IF Len(packets) = 0 THEN <<>>
    ELSE <<Len(Head(packets))>> \o Head(packets) \o writeRecords(Tail(packets))

\* Batch.from(buffer) under a wrap: [ok, packets].
batchFrom(sub, wrap) ==
    IF Len(sub) >= 2 /\ sub[2] = wrap
    THEN [ok |-> TRUE, packets |-> readRecords(SubSeq(sub, 3, Len(sub)))]
    ELSE [ok |-> FALSE, packets |-> <<>>]

\* new Batch(packets).export() under a wrap.
batchExport(packets, wrap) == <<BatchPacketId, wrap>> \o writeRecords(packets)

handleLoginPacket(S, data) ==
    LET pair == S.keyPair + 1
        S1 == [S EXCEPT !.keyPair = pair, !.salt = pair]
        secret == diffieHellman(pair, data[2], pair)
    IN  IF secret = <<>>
        THEN [S |-> throw(S1, "Key agreement failed"), data |-> data]
        ELSE [S |-> [S1 EXCEPT !.clientBatch =
                                  EncryptedBatchPacket(secret, "client")],
              data |-> <<LoginPacketId, publicKeyOf(pair)>>]

handleHandshakePacket(S, data) ==
    IF S.keyPair = 0
    THEN [S |-> throw(S, "TypeError"), data |-> data]
    ELSE LET secret == diffieHellman(S.keyPair, data[2], data[3])
         IN  IF secret = <<>>
             THEN [S |-> throw(S, "Key agreement failed"), data |-> data]
             ELSE [S |-> [S EXCEPT !.serverBatch =
                                     EncryptedBatchPacket(secret, "server"),
                                   !.state = Encrypted],
                   data |-> <<ServerHandshakePacketId, data[2], S.salt>>]

handleBedrock(S, data, from) ==
    IF from = "client" /\ data[1] = LoginPacketId
    THEN handleLoginPacket(S, data)
    ELSE IF from = "server" /\ data[1] = ServerHandshakePacketId
    THEN handleHandshakePacket(S, data)
    ELSE [S |-> S, data |-> data]

\* for (const data of batch.packets) packets.push(await handleBedrock(...))
RECURSIVE handleBedrocks(_, _, _, _)
handleBedrocks(S, packets, done, from) ==
    IF Len(packets) = 0 \/ ~running(S) THEN [S |-> S, packets |-> done]
    ELSE LET r == handleBedrock(S, Head(packets), from)
         IN  handleBedrocks(r.S, Tail(packets), Append(done, r.data), from)

handleUnencryptedBatch(S, sub, from) ==
    LET batch == batchFrom(sub, 0)
        r == handleBedrocks(S, batch.packets, <<>>, from)
    IN  IF ~batch.ok THEN [S |-> throw(S, "Malformed"), sub |-> sub]
        ELSE [S |-> r.S, sub |-> batchExport(r.packets, 0)]

handleEncryptedBatch(S, sub, from) ==
    LET ReceiveBatch == IF from = "client" THEN S.clientBatch ELSE S.serverBatch
        SendBatch == IF from = "client" THEN S.serverBatch ELSE S.clientBatch
        batch == batchFrom(sub, wrapOf(ReceiveBatch))
        r == handleBedrocks(S, batch.packets, <<>>, from)
    IN  IF ReceiveBatch = <<>> THEN [S |-> throw(S, "TypeError"), sub |-> sub]
        ELSE IF ~batch.ok THEN [S |-> throw(S, "CryptoFailure"), sub |-> sub]
        ELSE IF ~running(r.S) THEN [S |-> r.S, sub |-> sub]
        ELSE IF SendBatch = <<>> THEN [S |-> throw(r.S, "TypeError"), sub |-> sub]
        ELSE [S |-> r.S, sub |-> batchExport(r.packets, wrapOf(SendBatch))]

handleBatch(S, sub, from) ==
    IF S.state = Encrypted
    THEN handleEncryptedBatch(S, sub, from)
    ELSE handleUnencryptedBatch(S, sub, from)

----------------------------------------------------------------------------
(* handlePacket: reliable window, split reassembly, batch, forward         *)

\* Mutant of has: the lookup never finds an index.
has_never(indexes, index) == FALSE

\* indexes.has(index)
has(indexes, index) == index \in indexes

\* while (indexes.has(start)) { indexes.delete(start); window.start++;
\* window.end++ }: start is the const destructured from the window before.
RECURSIVE slide(_, _, _)
slide(indexes, window, start) ==
    IF has(indexes, start)
    THEN slide(indexes \ {start},
               [start |-> window.start + 1, end |-> window.end + 1], start)
    ELSE [indexes |-> indexes, window |-> window]

\* Lines 223-252: [S, go]; go = FALSE when the packet was dropped (return).
admit(S, packet, from) ==
    LET index == packet.index
        window == S.reliableWindow[from]
        indexes == S.packetIndexes[from]
        start == window.start
        end == window.end
        added == indexes \cup {index}
        slid == IF index = start
                THEN slide(added, window, start)
                ELSE [indexes |-> added, window |-> window]
    IN  IF ~isReliable(packet.reliability) THEN [S |-> S, go |-> TRUE]
        ELSE IF index = -1 THEN [S |-> throw(S, "No index"), go |-> FALSE]
        ELSE IF ~inRange(index, start, end) THEN [S |-> S, go |-> FALSE]
        ELSE IF has(indexes, index)
        THEN [S |-> throw(S, "Duplicate packet index"), go |-> FALSE]
        ELSE [S |-> [S EXCEPT !.packetIndexes[from] = slid.indexes,
                              !.reliableWindow[from] = slid.window,
                              !.received[from] = @ \cup {index}],
              go |-> TRUE]

\* array.findIndex(test), given the positions (from 1) that pass the test: the
\* first of them, 0 for -1.
findIndex(hits) == IF hits = {} THEN 0 ELSE Min(hits)

\* The positions of the table whose memory holds the split id.
holding(table, id) == {i \in 1..Len(table) : table[i].used /\ table[i].id = id}

\* The holes of the table.
holes(table) == {i \in 1..Len(table) : ~table[i].used}

\* Mutant of memoryOf: a full table gives up its first slot to the new id.
memoryOf_evict(table, id) ==
    LET found == findIndex(holding(table, id))
        free == findIndex(holes(table))
        slot == IF free = 0 THEN 1 ELSE free
    IN  IF found # 0 THEN [slot |-> found, splits |-> table, error |-> ""]
        ELSE [slot |-> slot,
              splits |-> [table EXCEPT
                            ![slot] = [used |-> TRUE, id |-> id,
                                       packets |-> <<>>]],
              error |-> ""]

\* memoryOf(splits, id): [slot, splits, error]; a new memory is put in the table.
memoryOf(table, id) ==
    LET found == findIndex(holding(table, id))
        free == findIndex(holes(table))
    IN  IF found # 0 THEN [slot |-> found, splits |-> table, error |-> ""]
        ELSE IF free = 0
        THEN [slot |-> 0, splits |-> table, error |-> "Too many split packets"]
        ELSE [slot |-> free,
              splits |-> [table EXCEPT
                            ![free] = [used |-> TRUE, id |-> id,
                                       packets |-> <<>>]],
              error |-> ""]

\* array.splice(i, 0, value): i (from 0) is clamped to the array's length.
insert(array, i, value) ==
    LET at == IF i > Len(array) THEN Len(array) ELSE i
    IN  SubSeq(array, 1, at) \o <<value>> \o SubSeq(array, at + 1, Len(array))

\* packets[index] is an element of the array (truthy) or undefined.
present(packets, index) == index < Len(packets)

\* for (const packet of packets) buffer.writeArray(packet.sub)
RECURSIVE concat(_)
concat(packets) ==
    IF Len(packets) = 0 THEN <<>>
    ELSE Head(packets).sub \o concat(Tail(packets))

\* Lines 254-277: [S, go, packet].
reassemble(S, packet, from) ==
    LET id == packet.split.id
        index == packet.split.index
        count == packet.split.count
        m == memoryOf(S.splits[from], id)
        packets == m.splits[m.slot].packets
        stored == insert(packets, index, packet)
        S1 == [S EXCEPT !.splits[from] = m.splits]
    IN  IF ~hasSplit(packet) THEN [S |-> S, go |-> TRUE, packet |-> packet]
        ELSE IF m.error # ""
        THEN [S |-> throw(S, m.error), go |-> FALSE, packet |-> packet]
        ELSE IF present(packets, index)
        THEN [S |-> S1, go |-> FALSE, packet |-> packet]
        ELSE IF Len(stored) # count
        THEN [S |-> [S1 EXCEPT !.splits[from][m.slot].packets = stored],
              go |-> FALSE, packet |-> packet]
        ELSE [S |-> [S1 EXCEPT !.splits[from][m.slot] = EmptySlot],
              go |-> TRUE,
              packet |-> [packet EXCEPT !.sub = concat(stored),
                                        !.split = NoSplit]]

\* Lines 279-287.
forward(S, packet, from) ==
    LET b == handleBatch(S, packet.sub, from)
    IN  IF packet.sub[1] # BatchPacketId
        THEN sendPacket(S, packet, opposite(from))
        ELSE IF ~running(b.S) THEN b.S
        ELSE sendPacket(b.S, [packet EXCEPT !.sub = b.sub], opposite(from))

handlePacket(S, packet, from) ==
    LET a == admit(S, packet, from)
        r == reassemble(a.S, packet, from)
    IN  IF ~a.go THEN a.S
        ELSE IF ~r.go THEN r.S
        ELSE forward(r.S, r.packet, from)

\* for (const packet of datagram.packets) await this.handlePacket(packet, from)
RECURSIVE handlePackets(_, _, _)
handlePackets(S, packets, from) ==
    IF Len(packets) = 0 \/ ~running(S) THEN S
    ELSE handlePackets(handlePacket(S, Head(packets), from), Tail(packets), from)

handleDatagram(S, datagram, from) ==
    handlePackets(sendAck(S, ACK(<<datagram.seqNumber>>), from),
                  datagram.packets, from)

\* Mutant of handleAck: the acknowledgement is passed on to the other side.
handleAck_forward(S, ack, from) == send(S, ack, opposite(from))

\* The NACK is logged; nothing else.
handleAck(S, ack, from) == S

handleOnline(S, data, from) ==
    IF data.kind = "Datagram" THEN handleDatagram(S, data, from)
    ELSE IF data.kind \in {"ACK", "NACK"} THEN handleAck(S, data, from)
    ELSE S

\* Mutant of handleOffline: the MTU of the last Open2Request is taken as it is.
handleOffline_lastMtu(S, data, from) ==
    LET S1 == IF data.kind = "Open2Request"
              THEN [S EXCEPT !.mtuSize = data.mtuSize]
              ELSE S
        S2 == IF data.kind = "Open2Reply" THEN [S1 EXCEPT !.state = Online]
              ELSE S1
    IN  send(S2, data, opposite(from))

\* Mutant of handleOffline: the packet goes back to where it came from.
handleOffline_echo(S, data, from) ==
    LET S1 == IF data.kind = "Open2Request"
              THEN [S EXCEPT !.mtuSize =
                               IF data.mtuSize < @ THEN data.mtuSize ELSE @]
              ELSE S
        S2 == IF data.kind = "Open2Reply" THEN [S1 EXCEPT !.state = Online]
              ELSE S1
    IN  send(S2, data, from)

handleOffline(S, data, from) ==
    LET S1 == IF data.kind = "Open2Request"
              THEN [S EXCEPT !.mtuSize =
                               IF data.mtuSize < @ THEN data.mtuSize ELSE @]
              ELSE S
        S2 == IF data.kind = "Open2Reply" THEN [S1 EXCEPT !.state = Online]
              ELSE S1
    IN  send(S2, data, opposite(from))

\* Mutant of handle: the result of the data-in event is not looked at.
handle_unheard(S, data, from) ==
    IF S.state = Offline THEN handleOffline(S, data, from)
    ELSE handleOnline(S, data, from)

handle(S, data, from) ==
    IF cancelled(S.dataIn) \/ empty(S.dataIn) THEN S
    ELSE IF S.state = Offline THEN handleOffline(S, data, from)
    ELSE handleOnline(S, data, from)

disconnect(S) == [S EXCEPT !.state = Offline, !.closed = TRUE]

----------------------------------------------------------------------------
(* Bounds of the model and the traffic the two peers generate              *)

MaxSeqNumber == 3      \* outbound datagrams stamped per direction
MaxIndex == 2          \* inbound reliable indices 0..MaxIndex near the window
MaxDatagramSeq == 1    \* inbound datagram sequence numbers 0..MaxDatagramSeq
MaxKeyPairs == 1       \* Login packets intercepted
MaxSplitId == 4        \* inbound split ids 0..MaxSplitId
MaxCount == 3          \* fragments of the inbound split set 0
MaxLength == 3         \* bytes of a payload to re-fragment
MaxRoom == 2           \* Open2Request advertises up to Overhead + MaxRoom
MaxCalls == 2          \* calls of sendPacket in progress at a time

Unreliable == 0
Reliable == 2

\* A plain (non-batch) payload of the given length: bytes 11, 12, ...
payload(length) == [i \in 1..length |-> 10 + i]

plain(reliability, index) ==
    EncapsulatedPacket(reliability, index, NoSplit, payload(3))

\* Reliable indices: the client sends the first ones and the ones around the
\* window's end, the server the first two.
Indexes(from) ==
    IF from = "client" THEN (0..MaxIndex) \cup {WindowEnd, WindowEnd + 1}
    ELSE {0, 1}

ReliableTraffic(from) ==
    {Datagram(0, <<plain(Reliable, i)>>) : i \in Indexes(from)}
      \cup {Datagram(0, <<plain(Reliable, WindowEnd + 1), plain(Reliable, 0)>>)}

OpenTraffic == {Open2Reply}

\* MTU negotiation: the sizes an Open2Request advertises, from one below the
\* overhead of a datagram to a few bytes above it, and one above the initial.
MtuSizes == ((Overhead - 1)..(Overhead + MaxRoom)) \cup {InitialMtu + 1}

MtuTraffic == {Open2Request(mtu) : mtu \in MtuSizes} \cup {Open2Reply}

PayloadTraffic ==
    {Datagram(0, <<EncapsulatedPacket(Unreliable, -1, NoSplit, payload(length))>>) :
       length \in 1..MaxLength}

\* Split sets, sent by the client: set 0 has MaxCount fragments, which arrive
\* in any order and any number of times; the sets 1..MaxSplitId have two
\* fragments, of which the first arrives (they stay in progress), and the peer
\* starts them in the order of their ids.
fragmentSub(id, index) == <<30 + 4 * id + index>>

fragment(id, index, count) ==
    EncapsulatedPacket(Unreliable, -1,
                       [id |-> id, index |-> index, count |-> count],
                       fragmentSub(id, index))

started(table, id) == \E i \in 1..Len(table) : table[i].used /\ table[i].id = id

SplitTraffic ==
    {Datagram(0, <<fragment(0, i, MaxCount)>>) : i \in 0..(MaxCount - 1)}
      \cup {Datagram(0, <<fragment(id, 0, 2)>>) :
               id \in {k \in 1..MaxSplitId :
                         k = 1 \/ started(splits["client"], k - 1)}}

\* Batches: the client's Login with a public key (0: one that no key agreement
\* accepts), the server's ServerHandshake with its key and salt.
ClientKey == 5
ServerKey == 6
ServerSalt == 4

batch(packets) == EncapsulatedPacket(Unreliable, -1, NoSplit, batchExport(packets, 0))

login(key) == <<LoginPacketId, key>>

handshake == <<ServerHandshakePacketId, ServerKey, ServerSalt>>

\* The traffic of a whole session: plain packets under any sequence number,
\* acknowledgements; from the client a reliable index sent again, alone and
\* before another packet, and the Login; from the server the ServerHandshake.
SessionPackets(from) ==
    IF from = "client"
    THEN {<<plain(Reliable, 1)>>, <<plain(Reliable, 1), plain(Unreliable, -1)>>,
          <<batch(<<login(ClientKey)>>)>>, <<batch(<<login(0)>>)>>}
    ELSE {<<batch(<<handshake>>)>>}

SessionTraffic(from) ==
    {Datagram(s, <<plain(Unreliable, -1)>>) : s \in 0..MaxDatagramSeq}
      \cup {Datagram(0, packets) : packets \in SessionPackets(from)}
      \cup {ACK(<<0>>), NACK(<<0>>)}

\* A call of sendPacket: where it is ("idle": no call; "sending": its datagram
\* is on the way to listener.send; "sent": listener.send has it, the loop has
\* not resumed), the buffers, the fragment in hand, the split id.
NoCall == [pc |-> "idle", to |-> "client", buffers |-> <<>>, i |-> 0, sid |-> 0,
           reliability |-> 0, datagram |-> NoData]

----------------------------------------------------------------------------
(* Actions: one call of handle() or disconnect()                           *)

Init ==
    /\ state = Offline
    /\ mtuSize = InitialMtu
    /\ splits = [o \in Origin |-> [i \in 1..SplitSlots |-> EmptySlot]]
    /\ splitID = [o \in Origin |-> 0]
    /\ packetIndex = [o \in Origin |-> 0]
    /\ reliableWindow = [o \in Origin |-> [start |-> 0, end |-> WindowEnd]]
    /\ packetIndexes = [o \in Origin |-> {}]
    /\ seqNumber = [o \in Origin |-> 0]
    /\ keyPair = 0
    /\ salt = 0
    /\ clientBatch = <<>>
    /\ serverBatch = <<>>
    /\ closed = FALSE
    /\ hung = FALSE
    /\ op = "new"
    /\ input = [from |-> "client", data |-> NoData]
    /\ sent = <<>>
    /\ error = ""
    /\ received = [o \in Origin |-> {}]
    /\ calls = [t \in 1..MaxCalls |-> NoCall]
    /\ stamped = [o \in Origin |-> <<>>]
    /\ wire = [o \in Origin |-> <<>>]
    /\ dataIn = "none"
    /\ dataOut = "none"

\* The session's fields after an operation that left them as the record R.
Becomes(R) ==
    /\ state' = R.state
    /\ mtuSize' = R.mtuSize
    /\ splits' = R.splits
    /\ splitID' = R.splitID
    /\ packetIndex' = R.packetIndex
    /\ reliableWindow' = R.reliableWindow
    /\ packetIndexes' = R.packetIndexes
    /\ seqNumber' = R.seqNumber
    /\ keyPair' = R.keyPair
    /\ salt' = R.salt
    /\ clientBatch' = R.clientBatch
    /\ serverBatch' = R.serverBatch
    /\ closed' = R.closed
    /\ hung' = R.hung
    /\ sent' = R.sent
    /\ error' = R.error
    /\ received' = R.received

\* The bounds on the counters, which only grow.
WithinBounds(R) ==
    /\ \A d \in Origin : R.seqNumber[d] <= MaxSeqNumber
    /\ R.keyPair <= MaxKeyPairs

\* handle(data, from), run to its end; a hung session runs nothing more.
Handle(from, data) ==
    /\ ~hung
    /\ LET R == handle(Session, data, from)
       IN  WithinBounds(R) /\ Becomes(R)
    /\ op' = "handle"
    /\ input' = [from |-> from, data |-> data]
    /\ UNCHANGED <<calls, stamped, wire, dataIn, dataOut>>

Disconnect ==
    /\ ~hung
    /\ Becomes(disconnect(Session))
    /\ op' = "disconnect"
    /\ input' = [from |-> "client", data |-> NoData]
    /\ UNCHANGED <<calls, stamped, wire, dataIn, dataOut>>

----------------------------------------------------------------------------
(* SpecWindow: the peers open the connection and send reliable packets     *)

ReceiveOpen == \E from \in Origin, data \in OpenTraffic : Handle(from, data)

ReceiveReliable ==
    \E from \in Origin : \E data \in ReliableTraffic(from) : Handle(from, data)

NextWindow == ReceiveOpen \/ ReceiveReliable

SpecWindow == Init /\ [][NextWindow]_vars

----------------------------------------------------------------------------
(* SpecSplit: the peers open the connection and send fragments             *)

ReceiveSplit == \E data \in SplitTraffic : Handle("client", data)

NextSplit == ReceiveOpen \/ ReceiveSplit

SpecSplit == Init /\ [][NextSplit]_vars

----------------------------------------------------------------------------
(* Spec: a whole session, from the opening to the disconnect               *)

Receive ==
    \E from \in Origin : \E data \in SessionTraffic(from) : Handle(from, data)

Next == ReceiveOpen \/ Receive \/ Disconnect

Spec == Init /\ [][Next]_vars

----------------------------------------------------------------------------
(* SpecFragment: the peers negotiate the MTU, then send payloads           *)

ReceiveMtu == \E from \in Origin, data \in MtuTraffic : Handle(from, data)

ReceivePayload == \E from \in Origin, data \in PayloadTraffic : Handle(from, data)

NextFragment == ReceiveMtu \/ ReceivePayload

SpecFragment == Init /\ [][NextFragment]_vars

----------------------------------------------------------------------------
(* SpecAsync: calls of sendPacket that interleave at their awaits.         *)
(* handle() is async: a call made while another is suspended in            *)
(* `await this.sendDatagram(...)` runs sendPacket up to its own await.     *)
(* Between two awaits a call runs alone.                                   *)

\* Lines 320-341 for fragment i of call t: stamp it and hand it to
\* sendDatagram, where the call is suspended.
Stamp(t, call, S) ==
    LET R == sendFragment(S, call.buffers[call.i + 1], call.i,
                          Len(call.buffers), call.sid, call.reliability,
                          call.to)
        datagram == R.sent[Len(R.sent)].data
    IN  /\ R.seqNumber["client"] + R.seqNumber["server"] <= MaxSeqNumber
        /\ Becomes(R)
        /\ calls' = [calls EXCEPT ![t] = [call EXCEPT !.pc = "sending",
                                                      !.datagram = datagram]]
        /\ stamped' = [stamped EXCEPT ![call.to] = Append(@, datagram)]

\* Lines 291-316, then the first fragment: sendPacket(packet, to) is called.
Begin(t, packet, to) ==
    /\ ~hung
    /\ state # Offline
    /\ calls[t].pc = "idle"
    /\ ~endless(Len(packet.sub), mtuSize - Overhead)
    /\ LET maxSize == mtuSize - Overhead
           buffers == readBuffers(packet.sub, 0, 0,
                                  quotientOf(Len(packet.sub), maxSize), maxSize,
                                  remainderOf(Len(packet.sub), maxSize))
           S == Session
           S1 == IF Len(buffers) > 1 THEN [S EXCEPT !.splitID[to] = @ + 1] ELSE S
           call == [pc |-> "idle", to |-> to, buffers |-> buffers, i |-> 0,
                    sid |-> S.splitID[to], reliability |-> packet.reliability,
                    datagram |-> NoData]
       IN  /\ Len(buffers) > 0
           /\ Stamp(t, call, S1)
    /\ op' = "sendPacket"
    /\ UNCHANGED <<input, wire, dataIn, dataOut>>

\* send(): the datagram of call t reaches listener.send.
Wire(t) ==
    /\ calls[t].pc = "sending"
    /\ wire' = [wire EXCEPT ![calls[t].to] = Append(@, calls[t].datagram)]
    /\ calls' = [calls EXCEPT ![t].pc = "sent"]
    /\ op' = "send"
    /\ UNCHANGED <<state, mtuSize, splits, splitID, packetIndex, reliableWindow,
                   packetIndexes, seqNumber, keyPair, salt, clientBatch,
                   serverBatch, closed, hung, input, sent, error, received,
                   stamped, dataIn, dataOut>>

\* The await of call t returns: the next fragment, or the end of the call.
Resume(t) ==
    /\ calls[t].pc = "sent"
    /\ IF calls[t].i + 1 < Len(calls[t].buffers)
       THEN Stamp(t, [calls[t] EXCEPT !.i = @ + 1], Session)
       ELSE /\ calls' = [calls EXCEPT ![t] = NoCall]
            /\ UNCHANGED <<state, mtuSize, splits, splitID, packetIndex,
                           reliableWindow, packetIndexes, seqNumber, keyPair,
                           salt, clientBatch, serverBatch, closed, hung, sent,
                           error, received, stamped>>
    /\ op' = "sendPacket"
    /\ UNCHANGED <<input, wire, dataIn, dataOut>>

AsyncMtuTraffic == {Open2Request(Overhead + 1), Open2Reply}

\* The MTU is negotiated before the session is Online.
ReceiveAsyncMtu ==
    /\ state = Offline
    /\ \E from \in Origin, data \in AsyncMtuTraffic : Handle(from, data)

\* A new call takes the first free place.
SendPackets ==
    \E t \in 1..MaxCalls, to \in Origin :
        /\ \A u \in 1..(t - 1) : calls[u].pc # "idle"
        /\ Begin(t, EncapsulatedPacket(Unreliable, -1, NoSplit, payload(MaxRoom)),
                 to)

Deliver == \E t \in 1..MaxCalls : Wire(t)

Continue == \E t \in 1..MaxCalls : Resume(t)

NextAsync == ReceiveAsyncMtu \/ SendPackets \/ Deliver \/ Continue

SpecAsync == Init /\ [][NextAsync]_vars

----------------------------------------------------------------------------
(* SpecEvents: subscribers of data-in and data-out come and go while the   *)
(* peers send datagrams, some of which make handlePacket throw.            *)

\* on("data-in" / "data-out", subscriber), or its removal ("none").
Subscribe(event, subscriber) ==
    /\ ~hung
    /\ IF event = "data-in"
       THEN dataIn' = subscriber /\ dataIn # subscriber /\ UNCHANGED dataOut
       ELSE dataOut' = subscriber /\ dataOut # subscriber /\ UNCHANGED dataIn
    /\ op' = "on"
    /\ UNCHANGED <<state, mtuSize, splits, splitID, packetIndex, reliableWindow,
                   packetIndexes, seqNumber, keyPair, salt, clientBatch,
                   serverBatch, closed, hung, input, sent, error, received,
                   calls, stamped, wire>>

\* An unreliable packet, a reliable one (sent again: a duplicate), a reliable
\* one without its index, an acknowledgement.
EventTraffic ==
    {Datagram(0, <<plain(Unreliable, -1)>>), Datagram(0, <<plain(Reliable, 1)>>),
     Datagram(0, <<plain(Reliable, -1)>>), ACK(<<0>>)}

ReceiveEvents == \E from \in Origin, data \in EventTraffic : Handle(from, data)

Subscribes ==
    \E event \in {"data-in", "data-out"}, subscriber \in Subscribers :
        Subscribe(event, subscriber)

NextEvents == ReceiveOpen \/ ReceiveEvents \/ Subscribes

SpecEvents == Init /\ [][NextEvents]_vars

----------------------------------------------------------------------------
(* SpecEncrypted: the peers open the connection, log in, and go on sending *)
(* batches under the codecs the handshake gave them.                       *)

\* A Bedrock packet the proxy does not intercept.
OtherBedrock == <<9, 7>>

\* A ServerHandshake sent again, with another salt.
rehandshake == <<ServerHandshakePacketId, ServerKey, ServerSalt + 1>>

\* The codec of the batches an origin sends.
codecOf(from) == IF from = "client" THEN clientBatch ELSE serverBatch

\* A batch as the peer `from` encrypts it.
encrypted(from, packets) ==
    EncapsulatedPacket(Unreliable, -1, NoSplit,
                       batchExport(packets, wrapOf(codecOf(from))))

HandshakeTraffic(from) ==
    IF from = "client"
    THEN {Datagram(0, <<batch(<<login(ClientKey)>>)>>),
          Datagram(0, <<batch(<<login(0)>>)>>)}
    ELSE {Datagram(0, <<batch(<<handshake>>)>>)}

EncryptedPackets(from) ==
    IF from = "client" THEN {<<OtherBedrock>>, <<login(ClientKey)>>}
    ELSE {<<OtherBedrock>>, <<rehandshake>>}

\* A peer encrypts once the handshake gave it a codec.
EncryptedTraffic(from) ==
    IF codecOf(from) = <<>> THEN {}
    ELSE {Datagram(0, <<encrypted(from, packets)>>) :
            packets \in EncryptedPackets(from)}

ReceiveHandshake ==
    \E from \in Origin : \E data \in HandshakeTraffic(from) : Handle(from, data)

ReceiveEncrypted ==
    \E from \in Origin : \E data \in EncryptedTraffic(from) : Handle(from, data)

NextEncrypted == ReceiveOpen \/ ReceiveHandshake \/ ReceiveEncrypted

SpecEncrypted == Init /\ [][NextEncrypted]_vars

----------------------------------------------------------------------------
(* SpecOrdered: well-behaved peers.  Each sends a reliable index at most   *)
(* once, in any order, and never one more than WindowEnd above the         *)
(* smallest index it has not sent yet.                                     *)

\* The smallest index that is not in a set of indices.
smallestMissing(indexes) ==
    Min({n \in 0..Cardinality(indexes) : n \notin indexes})

\* The indices a peer may send next, given the ones it sent (all admitted).
OrderedIndexes(from) ==
    {i \in (0..MaxIndex) \cup {WindowEnd + k : k \in 0..MaxIndex} :
        /\ i \notin received[from]
        /\ i <= smallestMissing(received[from]) + WindowEnd}

OrderedTraffic(from) ==
    {Datagram(s, <<plain(Reliable, i)>>) :
        s \in 0..MaxDatagramSeq, i \in OrderedIndexes(from)}

ReceiveOrdered ==
    \E from \in Origin : \E data \in OrderedTraffic(from) : Handle(from, data)

NextOrdered == ReceiveOpen \/ ReceiveOrdered

SpecOrdered == Init /\ [][NextOrdered]_vars

----------------------------------------------------------------------------
(* Claims on the reliable window (SpecWindow)                              *)

\* The last operation handled a datagram while the session was not Offline.
HandledDatagram == op = "handle" /\ input.data.kind = "Datagram" /\ sent # <<>>
                   /\ sent[1].data.kind = "ACK"

\* The fields of the session proper (not the log of the last operation).
fields == <<state, mtuSize, splits, splitID, packetIndex, reliableWindow,
            packetIndexes, seqNumber, keyPair, salt, clientBatch, serverBatch,
            closed, hung>>

\* C1 (as claimed): after handlePacket has processed a reliable packet from
\* origin o, the set of received indices of o does not contain the window's
\* start: the window has slid past the whole contiguous prefix.
C1_StartNotReceived ==
    \A o \in Origin : reliableWindow[o].start \notin packetIndexes[o]

C8_OutOfWindowDropped ==
    [][(/\ op' = "handle"
        /\ state # Offline
        /\ input'.data.kind = "Datagram"
        /\ input'.data.packets # <<>>
        /\ isReliable(input'.data.packets[1].reliability)
        /\ input'.data.packets[1].index # -1
        /\ ~(/\ input'.data.packets[1].index >= reliableWindow[input'.from].start
             /\ input'.data.packets[1].index <= reliableWindow[input'.from].end))
       => LET from == input'.from
              rest == Tail(input'.data.packets)
              R == handle(Session, Datagram(input'.data.seqNumber, rest), from)
          IN  /\ sent'[1] = [to |-> from,
                             data |-> ACK(<<input'.data.seqNumber>>)]
              /\ sent' = R.sent
              /\ error' = R.error
              /\ received' = R.received
              /\ fields' = <<R.state, R.mtuSize, R.splits, R.splitID,
                             R.packetIndex, R.reliableWindow, R.packetIndexes,
                             R.seqNumber, R.keyPair, R.salt, R.clientBatch,
                             R.serverBatch, R.closed, R.hung>>
              /\ rest = <<>> =>
                    /\ error' = ""
                    /\ Len(sent') = 1
                    /\ fields' = fields
                    /\ received' = received]_vars

\* C8 witness: a datagram whose only packet lies beyond the window's end was
\* handled, and only its ACK went out.
C8_Witness ==
    /\ HandledDatagram
    /\ Len(input.data.packets) = 1
    /\ input.data.packets[1].index > reliableWindow[input.from].end
    /\ Len(sent) = 1
    /\ error = ""

----------------------------------------------------------------------------
(* Claims on the split reassembly (SpecSplit)                              *)

\* The split indices stored for split id `id` in a slot table.
storedIndexes(table, id) ==
    UNION {{table[i].packets[k].split.index : k \in 1..Len(table[i].packets)} :
             i \in {j \in 1..Len(table) : table[j].used /\ table[j].id = id}}

usedSlots(table) == {i \in 1..Len(table) : table[i].used}

\* The payload forwarded toward `to` by the last operation: the subs of the
\* datagrams it sent there, in the order sent.
RECURSIVE forwarded(_, _)
forwarded(log, to) ==
    IF Len(log) = 0 THEN <<>>
    ELSE (IF Head(log).to = to /\ Head(log).data.kind = "Datagram"
          THEN Head(log).data.packets[1].sub ELSE <<>>)
           \o forwarded(Tail(log), to)

\* The payload of split set `id`: its fragments' subs in split-index order.
payloadOf(id, count) == [k \in 1..count |-> fragmentSub(id, k - 1)[1]]

\* The last handle() got, Online, a datagram of one fragment.
GotFragment ==
    /\ op' = "handle"
    /\ state # Offline
    /\ input'.data.kind = "Datagram"
    /\ Len(input'.data.packets) = 1
    /\ hasSplit(input'.data.packets[1])

\* C2 (as claimed): reassembly does not depend on the order of arrival: a
\* fragment whose split index is not stored yet for its set is never dropped;
\* it completes the set when it is the last of the count indices, and then the
\* payload forwarded is the fragments' subs in split-index order, and else it
\* is stored.
C2_ReassemblyAnyOrder ==
    [][(/\ GotFragment
        /\ \/ started(splits[input'.from], input'.data.packets[1].split.id)
           \/ usedSlots(splits[input'.from]) # 1..SplitSlots)
       => LET from == input'.from
              split == input'.data.packets[1].split
              before == storedIndexes(splits[from], split.id)
          IN  split.index \notin before =>
                IF before \cup {split.index} = 0..(split.count - 1)
                THEN /\ forwarded(sent', opposite(from))
                          = payloadOf(split.id, split.count)
                     /\ ~started(splits'[from], split.id)
                ELSE /\ storedIndexes(splits'[from], split.id)
                          = before \cup {split.index}
                     /\ Len(sent') = 1]_vars

\* The last handle() got a fragment from origin o: its split descriptor.
fragmentFrom(o) == GotFragment /\ input'.from = o

C9_SlotReused ==
    /\ usedSlots(splits["client"]) = 1..SplitSlots
    /\ splits["client"][1].id > splits["client"][2].id

----------------------------------------------------------------------------
(* Claims on a whole session (Spec)                                        *)

\* The positions of the acknowledgements in a log of sends.
acksIn(log) == {k \in 1..Len(log) : log[k].data.kind = "ACK"}

\* C3: Online or Encrypted, a datagram with sequence number s from origin o
\* makes the session send exactly one ACK, which carries <<s>>, goes to o and
\* is sent before anything else the call sends, whatever becomes of the
\* datagram's packets.
C3_OneAckToOrigin ==
    [][(/\ op' = "handle"
        /\ state \in {Online, Encrypted}
        /\ input'.data.kind = "Datagram")
       => /\ acksIn(sent') = {1}
          /\ sent'[1] = [to |-> input'.from,
                         data |-> ACK(<<input'.data.seqNumber>>)]
          /\ \A k \in 2..Len(sent') :
                /\ sent'[k].data.kind = "Datagram"
                /\ sent'[k].to = opposite(input'.from)]_vars

\* C3 witness: a datagram from the client was acknowledged to the client and
\* then forwarded to the server.
C3_Witness ==
    /\ HandledDatagram
    /\ input.from = "client"
    /\ input.data.seqNumber = MaxDatagramSeq
    /\ Len(sent) = 2
    /\ sent[1] = [to |-> "client", data |-> ACK(<<MaxDatagramSeq>>)]
    /\ sent[2].to = "server"

\* C3, a second case: the acknowledgement went out although the packet failed.
C3_AckOfFailedPacket ==
    /\ HandledDatagram
    /\ error = "Duplicate packet index"
    /\ acksIn(sent) = {1}

\* C5 (as claimed): no packet moves the state backward, disconnect() sets
\* Offline, and after a disconnect no packet changes the state again.
C5_StateOnlyAdvances ==
    [][/\ op' = "handle" => state' >= state
       /\ op' = "disconnect" => state' = Offline
       /\ (closed /\ op' = "handle") => state' = state]_vars

\* C6 (as claimed): whenever the state is Encrypted, both batch codecs are
\* populated.
C6_EncryptedHasBothCodecs ==
    state = Encrypted => clientBatch # <<>> /\ serverBatch # <<>>

----------------------------------------------------------------------------
(* Claims on the outbound fragmentation (SpecFragment)                     *)

\* The datagrams the last operation sent toward `to`, in the order sent.
datagramsTo(log, to) ==
    SelectSeq(log, LAMBDA e : e.to = to /\ e.data.kind = "Datagram")

\* The last handle() got, Online, a datagram of one packet without split.
GotPayload ==
    /\ op' = "handle"
    /\ state # Offline
    /\ input'.data.kind = "Datagram"
    /\ Len(input'.data.packets) = 1
    /\ ~hasSplit(input'.data.packets[1])
    /\ input'.data.packets[1].sub[1] # BatchPacketId

\* What C4 says of the fragments `out` of a payload `sub` under maxPayload.
fragmentsOf(out, sub, maxPayload) ==
    LET count == Len(sub) \div maxPayload + 1
    IN  /\ Len(out) = count
        /\ \A k \in 1..Len(out) :
              LET packet == out[k].data.packets[1]
              IN  /\ Len(packet.sub) = IF k = count THEN Len(sub) % maxPayload
                                       ELSE maxPayload
                  /\ IF count > 1
                     THEN /\ packet.split.count = count
                          /\ packet.split.index = k - 1
                          /\ packet.split.id = out[1].data.packets[1].split.id
                     ELSE ~hasSplit(packet)

\* C4 (as claimed): for any payload of length L and maxPayload = mtuSize - 60,
\* sendPacket emits floor(L / maxPayload) + 1 fragments, all of maxPayload
\* bytes but the last, of L mod maxPayload; several fragments carry one split
\* id, their number as count and their rank as split index; and the fragments'
\* subs in that order are the payload.
C4_FragmentsMakeThePayload ==
    [][GotPayload
       => LET to == opposite(input'.from)
              sub == input'.data.packets[1].sub
              out == datagramsTo(sent', to)
          IN  /\ ~hung'
              /\ forwarded(sent', to) = sub
              /\ mtuSize - Overhead > 0
                   => fragmentsOf(out, sub, mtuSize - Overhead)]_vars

\* C4 where the MTU leaves room for a payload (mtuSize > 60): the same.
C4_FragmentsWhenRoom ==
    [][(GotPayload /\ mtuSize - Overhead > 0)
       => LET to == opposite(input'.from)
              sub == input'.data.packets[1].sub
              out == datagramsTo(sent', to)
          IN  /\ ~hung'
              /\ forwarded(sent', to) = sub
              /\ fragmentsOf(out, sub, mtuSize - Overhead)]_vars

\* A payload of a multiple of maxPayload bytes went out with an empty last
\* fragment.
C4_EmptyLastFragment ==
    /\ HandledDatagram
    /\ Len(sent) = 3
    /\ Len(sent[2].data.packets[1].sub) = 2
    /\ sent[3].data.packets[1].sub = <<>>
    /\ sent[3].data.packets[1].split.index = 1

----------------------------------------------------------------------------
(* Claims on the outbound counters (SpecAsync)                             *)

packetOf(datagram) == datagram.packets[1]

\* Two datagrams are fragments of one logical packet.
sameSplit(a, b) ==
    /\ hasSplit(packetOf(a))
    /\ hasSplit(packetOf(b))
    /\ packetOf(a).split.id = packetOf(b).split.id

\* C10: toward each destination the sequence numbers and the packet indices
\* stamped on successive datagrams are strictly increasing, and the fragments
\* of one logical packet reach listener.send in split-index order with
\* strictly increasing sequence numbers, however the calls interleave.
C10_StampsIncrease ==
    \A d \in Origin :
        /\ \A p, q \in 1..Len(stamped[d]) :
              p < q => /\ stamped[d][p].seqNumber < stamped[d][q].seqNumber
                       /\ packetOf(stamped[d][p]).index
                            < packetOf(stamped[d][q]).index
        /\ \A p \in 1..Len(stamped[d]) :
              /\ stamped[d][p].seqNumber < seqNumber[d]
              /\ packetOf(stamped[d][p]).index < packetIndex[d]
        /\ \A p, q \in 1..Len(wire[d]) :
              (p < q /\ sameSplit(wire[d][p], wire[d][q]))
                => /\ packetOf(wire[d][p]).split.index
                        < packetOf(wire[d][q]).split.index
                   /\ wire[d][p].seqNumber < wire[d][q].seqNumber

\* C10 witness: the fragments of two logical packets toward the server reached
\* listener.send interleaved: a fragment of the second between two of the first.
C10_Witness ==
    /\ Len(wire["server"]) = 3
    /\ sameSplit(wire["server"][1], wire["server"][3])
    /\ ~sameSplit(wire["server"][1], wire["server"][2])

----------------------------------------------------------------------------
(* Claims on errors and events (SpecEvents)                                *)

FatalErrors == {"No index", "Duplicate packet index", "Too many split packets",
                "Event error"}

\* C11 (as claimed): a handle() that raises a fatal error leaves the session
\* torn down: state Offline and the server-facing listener closed.
C11_FatalTearsDown ==
    [][(op' = "handle" /\ error' \in FatalErrors)
         => (state' = Offline /\ closed')]_vars

\* A handle() threw "Event error" and the session is still Online and open.
C11_EventErrorLeavesOnline ==
    /\ op = "handle"
    /\ error = "Event error"
    /\ state = Online
    /\ ~closed

\* C13: a handle() whose data-in subscriber returns cancelled sends nothing
\* (no ACK, nothing forwarded), throws nothing and changes no field of the
\* session; a handle() whose data-out subscriber returns cancelled delivers
\* nothing to a listener.
C13_CancelledAborts ==
    [][/\ (op' = "handle" /\ cancelled(dataIn))
            => /\ sent' = <<>>
               /\ error' = ""
               /\ UNCHANGED <<fields, received>>
       /\ (op' = "handle" /\ cancelled(dataOut)) => sent' = <<>>]_vars

\* C13 witness: Online, a datagram of a reliable packet was handed to handle()
\* while the data-in subscriber cancels.
C13_Witness ==
    /\ op = "handle"
    /\ state = Online
    /\ cancelled(dataIn)
    /\ input.data.kind = "Datagram"
    /\ isReliable(input.data.packets[1].reliability)

\* Online, a datagram was handled while the data-out subscriber cancels: its
\* packet took an outbound sequence number and reached no listener.
C13_OutCancelled ==
    /\ op = "handle"
    /\ state = Online
    /\ cancelled(dataOut)
    /\ ~cancelled(dataIn) /\ ~empty(dataIn)
    /\ input.data.kind = "Datagram"
    /\ seqNumber[opposite(input.from)] > 0
    /\ sent = <<>>

----------------------------------------------------------------------------
(* Claims on the encrypted phase (SpecEncrypted)                           *)

\* The last handle() got from `from` a datagram of this one packet.
Got(from, packet) ==
    /\ op' = "handle"
    /\ input'.from = from
    /\ input'.data.kind = "Datagram"
    /\ input'.data.packets = <<packet>>

\* C12 (as claimed): a Login from the client or a ServerHandshake from the
\* server that arrives while the state is not Online leaves keyPair, salt,
\* clientBatch, serverBatch and state as they were.
C12_HandshakeOutsideOnlineDropped ==
    [][(/\ state # Online
        /\ \/ Got("client", batch(<<login(ClientKey)>>))
           \/ Got("server", batch(<<handshake>>))
           \/ /\ clientBatch # <<>>
              /\ Got("client", encrypted("client", <<login(ClientKey)>>))
           \/ /\ serverBatch # <<>>
              /\ Got("server", encrypted("server", <<rehandshake>>)))
         => UNCHANGED <<keyPair, salt, clientBatch, serverBatch, state>>]_vars

\* What the last handle() forwarded toward `to` is this one payload.
Forwarded(to, sub) ==
    /\ error' = ""
    /\ Len(datagramsTo(sent', to)) = 1
    /\ forwarded(sent', to) = sub

\* C17 (as claimed): in the state Encrypted a batch from origin o, encoded with
\* o's codec, is forwarded re-encoded with the codec of the opposite origin;
\* the batch that carries the ServerHandshake, received Online, is forwarded
\* unencrypted although the state is Encrypted after it.
C17_BatchesRecoded ==
    [][/\ \A o \in Origin :
            (/\ state = Encrypted
             /\ codecOf(o) # <<>>
             /\ Got(o, encrypted(o, <<OtherBedrock>>)))
              => /\ codecOf(opposite(o)) # <<>>
                 /\ Forwarded(opposite(o),
                              batchExport(<<OtherBedrock>>,
                                          wrapOf(codecOf(opposite(o)))))
       /\ (/\ state = Online
           /\ Got("server", batch(<<handshake>>))
           /\ state' = Encrypted)
            => Forwarded("client",
                         batchExport(<<<<ServerHandshakePacketId, ServerKey,
                                         salt>>>>, 0))]_vars

\* The same where both codecs are populated.
C17_RecodedWhenBothCodecs ==
    [][\A o \in Origin :
          (/\ state = Encrypted
           /\ clientBatch # <<>>
           /\ serverBatch # <<>>
           /\ Got(o, encrypted(o, <<OtherBedrock>>)))
            => Forwarded(opposite(o),
                         batchExport(<<OtherBedrock>>,
                                     wrapOf(codecOf(opposite(o)))))]_vars

\* Encrypted with both codecs, a batch of the client went out to the server
\* under the server's codec.
C17_ClientBatchRecoded ==
    /\ op = "handle"
    /\ state = Encrypted
    /\ clientBatch # <<>>
    /\ serverBatch # <<>>
    /\ input.from = "client"
    /\ input.data.packets = <<encrypted("client", <<OtherBedrock>>)>>
    /\ forwarded(sent, "server")
         = batchExport(<<OtherBedrock>>, wrapOf(serverBatch))

----------------------------------------------------------------------------
(* Claims on the Offline phase and the MTU (SpecFragment)                  *)

\* C14: mtuSize never exceeds InitialMtu; a handle() changes it only in the
\* state Offline and for an Open2Request, to the smaller of mtuSize and the
\* size the request advertises, so it never increases.
C14_MtuOnlyDecreases ==
    [][op' = "handle"
         => /\ mtuSize' <= InitialMtu
            /\ mtuSize' =
                 IF state = Offline /\ input'.data.kind = "Open2Request"
                      /\ input'.data.mtuSize < mtuSize
                 THEN input'.data.mtuSize
                 ELSE mtuSize]_vars

\* C14 witness: Offline, an Open2Request advertising more than the MTU already
\* negotiated was handled, and the smaller MTU stayed.
C14_Witness ==
    /\ op = "handle"
    /\ state = Offline
    /\ input.data.kind = "Open2Request"
    /\ mtuSize < input.data.mtuSize
    /\ mtuSize < InitialMtu

\* An Open2Request was handled Online and the MTU is still the initial one.
C14_RequestOnline ==
    /\ op = "handle"
    /\ state = Online
    /\ input.data.kind = "Open2Request"
    /\ sent = <<>>
    /\ mtuSize = InitialMtu

\* C15: a handle() in the state Offline sends exactly its data, unchanged, to
\* the opposite side and nothing else (no ACK), leaves windows, received
\* indices, split slots and outbound counters alone, and makes the state Online
\* exactly when the data is an Open2Reply.
C15_OfflineForwardsVerbatim ==
    [][(op' = "handle" /\ state = Offline)
         => /\ sent' = <<[to |-> opposite(input'.from), data |-> input'.data]>>
            /\ error' = ""
            /\ UNCHANGED <<reliableWindow, packetIndexes, splits, splitID,
                           packetIndex, seqNumber>>
            /\ state' = IF input'.data.kind = "Open2Reply" THEN Online
                        ELSE Offline]_vars

\* C15 witness: an Open2Reply brought the session Online and was forwarded.
C15_Witness ==
    /\ op = "handle"
    /\ state = Online
    /\ input.data.kind = "Open2Reply"
    /\ sent = <<[to |-> opposite(input.from), data |-> Open2Reply]>>

\* A datagram handled Offline was forwarded as it came, without an ACK.
C15_DatagramOffline ==
    /\ op = "handle"
    /\ state = Offline
    /\ input.data.kind = "Datagram"
    /\ sent = <<[to |-> opposite(input.from), data |-> input.data]>>

\* C20 (as claimed): sendPacket terminates, whatever MTU was negotiated.
C20_SendPacketTerminates == ~hung

----------------------------------------------------------------------------
(* Claims on what the reliable window lets through (SpecOrdered, SpecWindow) *)

\* The last handle() got, not Offline, a datagram of one reliable packet that
\* has its index.
GotReliable ==
    /\ op' = "handle"
    /\ state # Offline
    /\ input'.data.kind = "Datagram"
    /\ Len(input'.data.packets) = 1
    /\ ~hasSplit(input'.data.packets[1])
    /\ isReliable(input'.data.packets[1].reliability)
    /\ input'.data.packets[1].index # -1

\* C16 (as claimed): a reliable packet whose index its origin has not sent
\* before and that is at most WindowEnd above the smallest index the origin
\* has not sent yet is admitted and forwarded at once, without an error.
C16_OrderedPeersLoseNothing ==
    [][(/\ GotReliable
        /\ input'.data.packets[1].index \notin received[input'.from]
        /\ input'.data.packets[1].index
             <= smallestMissing(received[input'.from]) + WindowEnd)
         => /\ error' = ""
            /\ input'.data.packets[1].index \in received'[input'.from]
            /\ forwarded(sent', opposite(input'.from))
                 = input'.data.packets[1].sub]_vars

\* C19: a reliable packet (without split) whose index was already admitted
\* from its origin is not admitted and not forwarded again: only the ACK of
\* its datagram goes out, and the packet is dropped or raises an error.
C19_NoIndexForwardedTwice ==
    [][(/\ GotReliable
        /\ input'.data.packets[1].index \in received[input'.from])
         => /\ datagramsTo(sent', opposite(input'.from)) = <<>>
            /\ Len(sent') = 1
            /\ packetIndex' = packetIndex
            /\ seqNumber' = seqNumber
            /\ received' = received
            /\ \/ error' = "Duplicate packet index"
               \/ error' = "" /\ fields' = fields]_vars

\* C19 witness: an index admitted before, now below the window's start, came
\* again and only the ACK went out.
C19_Witness ==
    /\ HandledDatagram
    /\ Len(input.data.packets) = 1
    /\ isReliable(input.data.packets[1].reliability)
    /\ input.data.packets[1].index \in received[input.from]
    /\ input.data.packets[1].index < reliableWindow[input.from].start
    /\ Len(sent) = 1
    /\ error = ""

----------------------------------------------------------------------------
(* Claims on acknowledgements (Spec)                                       *)

\* C18: a handle() that gets an ACK or a NACK while the state is Online or
\* Encrypted sends nothing to either side, throws nothing and changes no field
\* of the session.
C18_AcksEndAtTheProxy ==
    [][(/\ op' = "handle"
        /\ state # Offline
        /\ input'.data.kind \in {"ACK", "NACK"})
         => /\ sent' = <<>>
            /\ error' = ""
            /\ fields' = fields
            /\ received' = received]_vars

\* C18 witness: a NACK from the server was handled in the state Encrypted.
C18_Witness ==
    /\ op = "handle"
    /\ state = Encrypted
    /\ input.data.kind = "NACK"
    /\ input.from = "server"
    /\ sent = <<>>

====
